---- MODULE Spec2Model ----
(***************************************************************************)
(* Model of the tournament reconciliation pipeline of magic-calendar:      *)
(*   src/fetch_tournaments.py  normalize_location, location_precision,     *)
(*                             slug, title_tokens, jaccard, choose_better, *)
(*                             dedup, cross_fill_locations, main,          *)
(*                             fetch_location_from_page and its cache,     *)
(*                             the date parsers, the enrichment budgets    *)
(*   src/export_ics.py         build_conflict_set                          *)
(*                                                                         *)
(* A Python str is a sequence of one-character strings.  Characters that   *)
(* are not ASCII are named atoms: "e_acute" (U+00E9), "emdash" (U+2014),   *)
(* "bullet" (U+2022).  Optional[str] None is the one-element sequence None.*)
(* A date is the day of the month of April 2026 (2026-04-dd).              *)
(***************************************************************************)
EXTENDS Integers, Sequences, FiniteSets, TLC

VARIABLES
    pc, all_t, years, y, failed,          \* main() of fetch_tournaments.py
    stage, tournaments, deduped, updated, \* dedup / cross_fill_locations on a list
    npc, loc_in, loc_once, loc_twice,     \* normalize_location applied twice
    cpc, rows, conflict,                  \* build_conflict_set on the rows
    epc, limit, enrich_count, eyears, ey, fetches, \* the enrichment budgets of a run
    cache_rank, cache_val, cache_size, gets,       \* lru_cache of fetch_location_from_page
    fpc, arg, ret                         \* one call of a function: argument, result

vars == <<pc, all_t, years, y, failed, stage, tournaments, deduped, updated,
          npc, loc_in, loc_once, loc_twice, cpc, rows, conflict,
          epc, limit, enrich_count, eyears, ey, fetches,
          cache_rank, cache_val, cache_size, gets, fpc, arg, ret>>

mainVars == <<pc, all_t, years, y, failed>>
resolveVars == <<stage, tournaments, deduped, updated>>
normVars == <<npc, loc_in, loc_once, loc_twice>>
conflictVars == <<cpc, rows, conflict>>
enrichVars == <<epc, limit, enrich_count, eyears, ey, fetches>>
cacheVars == <<cache_rank, cache_val, cache_size, gets>>
callVars == <<fpc, arg, ret>>

-----------------------------------------------------------------------------
(* Bounds *)

\* longest raw location string, in pieces of LocPieces
MaxPieces == 3
\* longest list handed to dedup
MaxRecs == 3
\* longest list of rows handed to build_conflict_set
MaxRows == 3
\* most entries (events, anchors, table rows, date lines) on one fetched page
MaxPerSource == 1
\* largest --years
MaxYears == 2
\* feeds of WPA_FEEDS a run polls, from the first
MaxFeeds == 2
\* largest --wpa-enrich-limit, --matchroom-enrich-limit, --epbf-enrich-limit
MaxLimit == 2
\* most http_get of one URL that are counted
MaxGets == 2

-----------------------------------------------------------------------------
(* Characters *)

None == <<"None">>

\* the variables of the operations a specification does not run
NormIdle == /\ npc = "idle" /\ loc_in = None /\ loc_once = None /\ loc_twice = None
ResolveIdle == /\ stage = "idle" /\ tournaments = <<>> /\ deduped = <<>>
               /\ updated = <<>>
MainIdle == /\ pc = "idle" /\ all_t = <<>> /\ years = 0 /\ y = 0 /\ failed = {}
ConflictIdle == /\ cpc = "idle" /\ rows = <<>> /\ conflict = {}
EnrichIdle == /\ epc = "idle" /\ limit = <<>> /\ enrich_count = 0 /\ eyears = 0
              /\ ey = 0 /\ fetches = <<>>
CacheIdle == /\ cache_rank = <<>> /\ cache_val = <<>> /\ cache_size = 0
             /\ gets = <<>>
CallIdle == /\ fpc = "idle" /\ arg = <<>> /\ ret = <<>>

UpperSeq == <<"A","B","C","D","E","F","G","H","I","J","K","L","M",
              "N","O","P","Q","R","S","T","U","V","W","X","Y","Z">>
LowerSeq == <<"a","b","c","d","e","f","g","h","i","j","k","l","m",
              "n","o","p","q","r","s","t","u","v","w","x","y","z">>
DigitSeq == <<"0","1","2","3","4","5","6","7","8","9">>

Range(s) == {s[i] : i \in DOMAIN s}

UpperChars == Range(UpperSeq)
LowerChars == Range(LowerSeq)
DigitChars == Range(DigitSeq)

IndexIn(c, s) == CHOOSE i \in DOMAIN s : s[i] = c

\* str.lower() / str.upper() on one character
LowerChar(c) == IF c \in UpperChars THEN LowerSeq[IndexIn(c, UpperSeq)]
                ELSE IF c = "E_acute" THEN "e_acute" ELSE c
UpperChar(c) == IF c \in LowerChars THEN UpperSeq[IndexIn(c, LowerSeq)]
                ELSE IF c = "e_acute" THEN "E_acute" ELSE c

Lower(s) == [i \in DOMAIN s |-> LowerChar(s[i])]
Upper(s) == [i \in DOMAIN s |-> UpperChar(s[i])]

\* [a-zA-Z0-9]
IsAlnum(c) == c \in UpperChars \cup LowerChars \cup DigitChars
\* \s
IsSpace(c) == c \in {" ", "\t", "\n"}
\* \w of a str pattern: Unicode letters, digits and the underscore
IsWord(c) == IsAlnum(c) \/ c \in {"_", "e_acute", "E_acute"}
\* \d
IsDigit(c) == c \in DigitChars

\* s[i:] (1-based, i may be Len(s)+1)
Drop(s, i) == SubSeq(s, i, Len(s))

\* \b at either end of a match that starts and ends with a word character:
\* position i of s is outside s or holds no word character
NotWordAt(s, i) == i < 1 \/ i > Len(s) \/ ~IsWord(s[i])

\* s.startswith(p) at position i
MatchAt(s, i, p) == /\ i + Len(p) - 1 <= Len(s)
                    /\ SubSeq(s, i, i + Len(p) - 1) = p

\* The concatenation of the pieces ps[lo..hi], by halves.
RECURSIVE Flatten(_, _, _)
Flatten(ps, lo, hi) ==
    IF lo > hi THEN <<>>
    ELSE IF lo = hi THEN ps[lo]
    ELSE Flatten(ps, lo, (lo + hi) \div 2) \o Flatten(ps, (lo + hi) \div 2 + 1, hi)

\* "".join(ps)
Join(ps) == Flatten(ps, 1, Len(ps))

Min(S) == CHOOSE x \in S : \A z \in S : x <= z
Max(S) == CHOOSE x \in S : \A z \in S : x >= z

\* str.strip()
Strip(s) ==
    LET keep == {i \in DOMAIN s : ~IsSpace(s[i])}
    IN  IF keep = {} THEN <<>> ELSE SubSeq(s, Min(keep), Max(keep))

\* re.sub(r"\s+", " ", s): the first character of a run of whitespace becomes
\* a space, the rest of the run goes
CollapseSpaces(s) ==
    Join([i \in DOMAIN s |->
            IF ~IsSpace(s[i]) THEN <<s[i]>>
            ELSE IF i > 1 /\ IsSpace(s[i - 1]) THEN <<>>
            ELSE <<" ">>])

norm_spaces(s) == CollapseSpaces(Strip(s))

\* str.replace(old, new) for an old no two occurrences of which overlap
Replace(s, old, new) ==
    Join([i \in DOMAIN s |->
            IF MatchAt(s, i, old) THEN new
            ELSE IF \E k \in 1..(Len(old) - 1) : i - k >= 1 /\ MatchAt(s, i - k, old)
                 THEN <<>>
            ELSE <<s[i]>>])

\* sep in s
Contains(s, sep) == \E i \in 1..Len(s) : MatchAt(s, i, sep)

\* s.find(sep) (1-based), for a string that contains sep
Find(s, sep) == CHOOSE i \in 1..Len(s) :
                    /\ MatchAt(s, i, sep)
                    /\ \A j \in 1..(i - 1) : ~MatchAt(s, j, sep)

-----------------------------------------------------------------------------
(* Location rules *)

\* the alternatives of BAD_LOCATION_RE; "tickets?" is two of them
BadTerms == {
    <<"i","c","a","l">>,
    <<"o","u","t","l","o","o","k">>,
    <<"e","x","p","o","r","t">>,
    <<"s","u","b","s","c","r","i","b","e">>,
    <<"a","d","d"," ","t","o">>,
    <<"g","o","o","g","l","e">>,
    <<"c","a","l","e","n","d","a","r">>,
    <<"s","h","a","r","e">>,
    <<"p","r","i","n","t">>,
    <<"d","o","w","n","l","o","a","d">>,
    <<"t","i","c","k","e","t">>,
    <<"t","i","c","k","e","t","s">>,
    <<"p","r","i","z","e"," ","f","u","n","d">>,
    <<"m","o","r","e"," ","i","n","f","o">>,
    <<"r","e","a","d"," ","m","o","r","e">>,
    <<"c","o","u","n","t","d","o","w","n">> }

\* the longest location is_bad_location lets through
MaxLocLen == 140

\* BAD_LOCATION_RE.search(s): (?i)\b(term)\b
BadLocationSearch(s) ==
    LET ls == Lower(s) IN
    \E i \in 1..Len(s) : \E t \in BadTerms :
        /\ NotWordAt(s, i - 1)
        /\ MatchAt(ls, i, t)
        /\ NotWordAt(s, i + Len(t))

\* re.fullmatch(r"\d{1,6}", s)
AllDigits1to6(s) == /\ Len(s) >= 1
                    /\ Len(s) <= 6
                    /\ \A i \in 1..Len(s) : IsDigit(s[i])

\* not loc: None or the empty string
Falsy(loc) == loc = None \/ loc = <<>>

is_bad_location(loc) ==
    IF Falsy(loc) THEN TRUE
    ELSE LET s == norm_spaces(loc) IN
         \/ s = <<>>
         \/ AllDigits1to6(s)
         \/ BadLocationSearch(s)
         \/ Len(s) > MaxLocLen
         \/ s[1] \in {"+", "bullet"}

TBA == <<"T","B","A">>
Slash == <<" ", "/", " ">>

normalize_location(loc) ==
    IF Falsy(loc) THEN None
    ELSE
    LET s0 == Replace(norm_spaces(loc), <<"T","u","k","e","y">>,
                      <<"T","u","r","k","e","y">>)
    IN  IF Contains(s0, Slash)
        THEN LET k == Find(s0, Slash)
                 left == Strip(SubSeq(s0, 1, k - 1))
                 right == Strip(Drop(s0, k + 3))
                 s == left \o <<",", " ">> \o right
             IN  IF Upper(left) = TBA /\ Upper(right) = TBA THEN None
                 ELSE IF Upper(left) = TBA
                      THEN (IF Upper(right) = TBA THEN None ELSE right)
                 ELSE IF Upper(right) = TBA
                      THEN (IF Upper(left) = TBA THEN None ELSE left)
                 ELSE IF Upper(s) = TBA THEN None
                 ELSE IF is_bad_location(s) THEN None ELSE s
        ELSE IF Upper(s0) = TBA THEN None
        ELSE IF is_bad_location(s0) THEN None ELSE s0

location_precision(loc) ==
    IF Falsy(loc) THEN 0
    ELSE LET s == norm_spaces(loc) IN
         IF \E i \in DOMAIN s : s[i] = "," THEN 2 ELSE 1

-----------------------------------------------------------------------------
(* Utils: slug, title_tokens, jaccard *)

\* unicodedata.normalize("NFKD", s).encode("ascii", "ignore"): an accented
\* letter keeps its base letter, any other non-ASCII character is dropped
AsciiFold(s) ==
    Join([i \in DOMAIN s |->
            IF s[i] = "e_acute" THEN <<"e">>
            ELSE IF s[i] = "E_acute" THEN <<"E">>
            ELSE IF s[i] \in {"emdash", "bullet"} THEN <<>>
            ELSE <<s[i]>>])

\* re.sub(r"[^a-zA-Z0-9]+", "-", s): the first character of a run becomes a
\* hyphen, the rest of the run goes
HyphenateRuns(s) ==
    Join([i \in DOMAIN s |->
            IF IsAlnum(s[i]) THEN <<s[i]>>
            ELSE IF i > 1 /\ ~IsAlnum(s[i - 1]) THEN <<>>
            ELSE <<"-">>])

\* s.strip("-")
StripHyphens(s) ==
    LET keep == {i \in DOMAIN s : s[i] # "-"}
    IN  IF keep = {} THEN <<>> ELSE SubSeq(s, Min(keep), Max(keep))

slug(s) == Lower(StripHyphens(HyphenateRuns(AsciiFold(s))))

\* \b20\d{2}\b matches at position i of s
YearAt(s, i) == /\ i >= 1
                /\ i + 3 <= Len(s)
                /\ s[i] = "2" /\ s[i + 1] = "0"
                /\ IsDigit(s[i + 2]) /\ IsDigit(s[i + 3])
                /\ NotWordAt(s, i - 1) /\ NotWordAt(s, i + 4)

\* re.sub(r"\b20\d{2}\b", " ", s): two matches never overlap, a word boundary
\* not falling between two digits
RemoveYears(s) ==
    Join([i \in DOMAIN s |->
            IF YearAt(s, i) THEN <<" ">>
            ELSE IF \E k \in 1..3 : YearAt(s, i - k) THEN <<>>
            ELSE <<s[i]>>])

\* set(s.split("-")): the pieces of s between one hyphen (or an end of s) and
\* the next
SplitHyphen(s) ==
    LET cuts == {0, Len(s) + 1} \cup {i \in DOMAIN s : s[i] = "-"}
    IN  {SubSeq(s, a + 1, b - 1) :
            <<a, b>> \in {p \in cuts \X cuts :
                            /\ p[1] < p[2]
                            /\ \A c \in cuts : ~(p[1] < c /\ c < p[2])}}

\* shortest token title_tokens keeps
MinTokenLen == 3

title_tokens(s) ==
    {x \in SplitHyphen(slug(RemoveYears(s))) : Len(x) >= MinTokenLen}

\* A similarity is the fraction <<numerator, denominator>>: the quotient of two
\* small integers, which float division and comparison order as the fractions.
FracLess(p, q) == p[1] * q[2] < q[1] * p[2]

jaccard(a, b) ==
    LET sa == title_tokens(a)
        sb == title_tokens(b)
    IN  IF sa = {} \/ sb = {} THEN <<0, 1>>
        ELSE <<Cardinality(sa \cap sb), Cardinality(sa \cup sb)>>

-----------------------------------------------------------------------------
(* The titles and locations of the records of the model *)

\* the token "tNN"
Tok(i) == <<"t", DigitSeq[(i \div 10) + 1], DigitSeq[(i % 10) + 1]>>

\* the title "tLO ... tHI"
RECURSIVE RangeTitle(_, _)
RangeTitle(lo, hi) == IF lo > hi THEN <<>>
                      ELSE IF lo = hi THEN Tok(lo)
                      ELSE Tok(lo) \o <<" ">> \o RangeTitle(lo + 1, hi)

\* 16 tokens
TitleA == RangeTitle(1, 16)
\* another spelling of TitleA with the same slug
TitleA2 == Upper(TitleA)
\* 16 tokens, 7 of them TitleA's, 25 in all: similarity 7/25 = 0.28
TitleB == RangeTitle(10, 25)
\* 17 tokens, 7 of them TitleA's, 26 in all: similarity 7/26 < 0.28
TitleC == RangeTitle(10, 26)
\* no token of MinTokenLen characters
TitleE == <<"U","S"," ","9">>

Usa == <<"U","S","A">>
Paris == <<"P","a","r","i","s",","," ","F","r","a","n","c","e">>
Lyon == <<"L","y","o","n",","," ","F","r","a","n","c","e">>

\* f"Predator Pro Billiard Series — {prev_location}"
PbsTitle(prev_location) ==
    <<"P","r","e","d","a","t","o","r"," ","P","r","o"," ",
      "B","i","l","l","i","a","r","d"," ","S","e","r","i","e","s"," ",
      "emdash"," ">> \o prev_location
\* the title of the fallback record of the stop announced for Paris
TitleP == PbsTitle(Paris)

\* A record holds its title by name: TitleText is the string a name stands for,
\* one string per name.
TitleText == [A |-> TitleA, A2 |-> TitleA2, B |-> TitleB, C |-> TitleC,
              E |-> TitleE, P |-> TitleP]

\* the titles of the lists handed to dedup
Titles == {"A", "A2", "B", "C", "E"}

\* <<start, end>>
DateSpans == {<<1, 1>>, <<1, 2>>, <<1, 3>>, <<2, 2>>}

\* what a fetcher stores as location: None or a string normalize_location
\* returned
Locations == {None, Usa, Paris, Lyon}

\* slug, location_precision and jaccard are computed once for the titles and
\* locations of the model, and looked up from then on
\* f as an explicit table
Tabulated(f) == f @@ <<>>

SlugOf == Tabulated([ti \in DOMAIN TitleText |-> slug(TitleText[ti])])
PrecisionOf == Tabulated([l \in Locations |-> location_precision(l)])
TokensOf == Tabulated([ti \in DOMAIN TitleText |->
                         title_tokens(TitleText[ti])])
JaccardOf == Tabulated([p \in (DOMAIN TitleText) \X (DOMAIN TitleText) |->
                          jaccard(TitleText[p[1]], TitleText[p[2]])])

-----------------------------------------------------------------------------
(* Post-processing: dedup + cross-fill locations *)

\* date.isoformat() of 2026-04-dd
isoformat(d) == <<"2","0","2","6","-","0","4","-",
                  DigitSeq[(d \div 10) + 1], DigitSeq[(d % 10) + 1]>>

\* choose_better with the comparison of the precisions turned round
choose_better_LowerWins(a, b) ==
    LET pa == PrecisionOf[a.location]
        pb == PrecisionOf[b.location]
    IN  IF pb < pa THEN b
        ELSE IF pa < pb THEN a
        ELSE IF Falsy(a.location) /\ ~Falsy(b.location)
             THEN [a EXCEPT !.location = b.location]
        ELSE a

\* the record seen first is kept, whatever the precisions
choose_better_KeepsFirst(a, b) == a

\* on tied precision the later record wins
choose_better_LaterWinsTies(a, b) ==
    IF PrecisionOf[b.location] >= PrecisionOf[a.location] THEN b ELSE a

\* the better location is copied into the record seen first
choose_better_CopiesLocation(a, b) ==
    IF PrecisionOf[b.location] > PrecisionOf[a.location]
    THEN [a EXCEPT !.location = b.location]
    ELSE a

choose_better(a, b) ==
    LET pa == PrecisionOf[a.location]
        pb == PrecisionOf[b.location]
    IN  IF pb > pa THEN b
        ELSE IF pa > pb THEN a
        ELSE IF Falsy(a.location) /\ ~Falsy(b.location)
             THEN [a EXCEPT !.location = b.location]
        ELSE a

\* the key without the start date
DedupKey_SlugOnly(t) == SlugOf[t.title]

\* key = f"{slug(t.title)}|{t.start_iso}"
DedupKey(t) == SlugOf[t.title] \o <<"|">> \o isoformat(t.start)

\* The dict seen is the pair of sequences keys, vals in insertion order.
RECURSIVE DedupLoop(_, _, _, _)
DedupLoop(ts, i, keys, vals) ==
    IF i > Len(ts) THEN vals
    ELSE LET t == ts[i]
             key == DedupKey(t)
         IN  IF \A k \in DOMAIN keys : keys[k] # key
             THEN DedupLoop(ts, i + 1, Append(keys, key), Append(vals, t))
             ELSE LET k == CHOOSE k \in DOMAIN keys : keys[k] = key
                  IN  DedupLoop(ts, i + 1, keys,
                                [vals EXCEPT ![k] = choose_better(vals[k], t)])

dedup(ts) == DedupLoop(ts, 1, <<>>, <<>>)

\* the acceptance threshold 0.28 of cross_fill_locations
SimThresholdNum == 28
SimThresholdDen == 100
\* largest abs((c.end - t.end).days) of a donor
MaxEndGap == 1

Abs(n) == IF n < 0 THEN -n ELSE n

\* BestLoc with "sim <= 0.28: continue"
RECURSIVE BestLoc_StrictThreshold(_, _, _, _, _)
BestLoc_StrictThreshold(ts, i, j, best_loc, best_score) ==
    IF j > Len(ts) THEN best_loc
    ELSE LET t == ts[i]
             c == ts[j]
         IN  IF \/ c.start # t.start
                \/ j = i
                \/ PrecisionOf[c.location] # 2
                \/ Abs(c.end - t.end) > MaxEndGap
             THEN BestLoc_StrictThreshold(ts, i, j + 1, best_loc, best_score)
             ELSE LET sim == JaccardOf[<<t.title, c.title>>]
                  IN  IF ~FracLess(<<SimThresholdNum, SimThresholdDen>>, sim)
                      THEN BestLoc_StrictThreshold(ts, i, j + 1, best_loc, best_score)
                      ELSE IF FracLess(best_score, sim)
                      THEN BestLoc_StrictThreshold(ts, i, j + 1, c.location, sim)
                      ELSE BestLoc_StrictThreshold(ts, i, j + 1, best_loc, best_score)

\* BestLoc with "sim >= best_score" for the update of best_loc
RECURSIVE BestLoc_LaterWinsTies(_, _, _, _, _)
BestLoc_LaterWinsTies(ts, i, j, best_loc, best_score) ==
    IF j > Len(ts) THEN best_loc
    ELSE LET t == ts[i]
             c == ts[j]
         IN  IF \/ c.start # t.start
                \/ j = i
                \/ PrecisionOf[c.location] # 2
                \/ Abs(c.end - t.end) > MaxEndGap
             THEN BestLoc_LaterWinsTies(ts, i, j + 1, best_loc, best_score)
             ELSE LET sim == JaccardOf[<<t.title, c.title>>]
                  IN  IF FracLess(sim, <<SimThresholdNum, SimThresholdDen>>)
                      THEN BestLoc_LaterWinsTies(ts, i, j + 1, best_loc, best_score)
                      ELSE IF ~FracLess(sim, best_score)
                      THEN BestLoc_LaterWinsTies(ts, i, j + 1, c.location, sim)
                      ELSE BestLoc_LaterWinsTies(ts, i, j + 1, best_loc, best_score)

\* The loop over cands for the record at position i, from position j on: cands
\* are the records of ts with t's start, in the order of ts, and "c is t" is
\* position j = i.
RECURSIVE BestLoc(_, _, _, _, _)
BestLoc(ts, i, j, best_loc, best_score) ==
    IF j > Len(ts) THEN best_loc
    ELSE LET t == ts[i]
             c == ts[j]
         IN  IF \/ c.start # t.start
                \/ j = i
                \/ PrecisionOf[c.location] # 2
                \/ Abs(c.end - t.end) > MaxEndGap
             THEN BestLoc(ts, i, j + 1, best_loc, best_score)
             ELSE LET sim == JaccardOf[<<t.title, c.title>>]
                  IN  IF FracLess(sim, <<SimThresholdNum, SimThresholdDen>>)
                      THEN BestLoc(ts, i, j + 1, best_loc, best_score)
                      ELSE IF FracLess(best_score, sim)
                      THEN BestLoc(ts, i, j + 1, c.location, sim)
                      ELSE BestLoc(ts, i, j + 1, best_loc, best_score)

\* CrossFillOne without the early "continue" for a record of precision 2
CrossFillOne_NoFineGuard(ts, i) ==
    LET t == ts[i]
        best_loc == BestLoc(ts, i, 1, None, <<0, 1>>)
    IN  IF ~Falsy(best_loc) /\ best_loc # t.location
        THEN [t EXCEPT !.location = best_loc]
        ELSE t

\* The body of the loop over tournaments, for the record at position i.
CrossFillOne(ts, i) ==
    LET t == ts[i] IN
    IF PrecisionOf[t.location] = 2 THEN t
    ELSE LET best_loc == BestLoc(ts, i, 1, None, <<0, 1>>)
         IN  IF ~Falsy(best_loc) /\ best_loc # t.location
             THEN [t EXCEPT !.location = best_loc]
             ELSE t

\* cross_fill_locations without the "else: updated.append(t)" of its last lines
cross_fill_locations_DropsUnfilled(ts) ==
    LET all == [i \in DOMAIN ts |-> CrossFillOne(ts, i)]
        kept(i) == PrecisionOf[ts[i].location] = 2 \/ all[i] # ts[i]
    IN  Join([i \in DOMAIN ts |-> IF kept(i) THEN <<all[i]>> ELSE <<>>])

\* by_start that holds, in place of each record already handled, the record
\* appended to updated for it
by_start_SeesUpdated(ts, upd) ==
    upd \o SubSeq(ts, Len(upd) + 1, Len(ts))

\* The records the candidates are taken from once upd has been built: by_start
\* is filled from the list ts before the loop, and holds the records of ts
\* whatever is appended to updated.
by_start(ts, upd) == ts

\* The loop over tournaments: one record is appended to updated per round.
RECURSIVE CrossFillLoop(_, _)
CrossFillLoop(ts, upd) ==
    IF Len(upd) = Len(ts) THEN upd
    ELSE CrossFillLoop(ts,
             Append(upd, CrossFillOne(by_start(ts, upd), Len(upd) + 1)))

cross_fill_locations(ts) == CrossFillLoop(ts, <<>>)


-----------------------------------------------------------------------------
(* dedup, then cross_fill_locations, applied to a list of records *)

Tournament(title, organizer, start, end, location, tour, source, source_url) ==
    [title |-> title, organizer |-> organizer, start |-> start, end |-> end,
     location |-> location, tour |-> tour, source |-> source,
     source_url |-> source_url]

\* the records of the lists handed to dedup, as the first WPA feed yields them
Records == {Tournament(ti, "WPA", d[1], d[2], l, "WPA_ALL", "WPA iCal feed",
                       "https://wpapool.com/?mec-ical-feed=1") :
                ti \in Titles, d \in DateSpans, l \in Locations}

InitResolve == /\ stage = "raw"
               /\ \E n \in 0..MaxRecs : tournaments \in [1..n -> Records]
               /\ deduped = <<>>
               /\ updated = <<>>
               /\ NormIdle /\ MainIdle /\ ConflictIdle
               /\ EnrichIdle /\ CacheIdle /\ CallIdle

Dedup == /\ stage = "raw"
         /\ deduped' = dedup(tournaments)
         /\ stage' = "dedup"
         /\ UNCHANGED <<tournaments, updated>>
         /\ UNCHANGED <<mainVars, normVars, conflictVars>>
         /\ UNCHANGED <<enrichVars, cacheVars, callVars>>

CrossFill == /\ stage = "dedup"
             /\ updated' = cross_fill_locations(deduped)
             /\ stage' = "cross_fill"
             /\ UNCHANGED <<tournaments, deduped>>
             /\ UNCHANGED <<mainVars, normVars, conflictVars>>
             /\ UNCHANGED <<enrichVars, cacheVars, callVars>>

NextResolve == Dedup \/ CrossFill

SpecResolve == InitResolve /\ [][NextResolve]_vars


\* The identity key of a record: (slug(title), start.isoformat()).
IdentityKey(t) == <<SlugOf[t.title], isoformat(t.start)>>

KeysOf(ts) == {IdentityKey(ts[i]) : i \in DOMAIN ts}

\* C1: for every record r of the raw list, the record that carries r's identity
\* key after dedup and cross_fill_locations has a location precision at least
\* that of r; and no position of the list moves to a lower precision in
\* cross_fill_locations.
C1_PrecisionNeverDrops ==
    stage = "cross_fill" =>
        /\ \A i \in DOMAIN tournaments :
              /\ \E j \in DOMAIN updated :
                    IdentityKey(updated[j]) = IdentityKey(tournaments[i])
              /\ \A j \in DOMAIN updated :
                    IdentityKey(updated[j]) = IdentityKey(tournaments[i]) =>
                        PrecisionOf[updated[j].location] >=
                            PrecisionOf[tournaments[i].location]
        /\ \A j \in DOMAIN deduped :
              PrecisionOf[updated[j].location] >= PrecisionOf[deduped[j].location]

\* a run in which dedup merged a record without location into one with a coarse
\* location, and cross_fill_locations then raised that one to a fine location
C1_Witness ==
    /\ stage = "cross_fill"
    /\ Len(deduped) < Len(tournaments)
    /\ \E i \in DOMAIN tournaments : \E k \in DOMAIN tournaments :
       \E j \in DOMAIN deduped :
          /\ i # k
          /\ IdentityKey(tournaments[i]) = IdentityKey(tournaments[k])
          /\ IdentityKey(deduped[j]) = IdentityKey(tournaments[i])
          /\ PrecisionOf[tournaments[i].location] = 0
          /\ PrecisionOf[tournaments[k].location] = 1
          /\ PrecisionOf[deduped[j].location] = 1
          /\ PrecisionOf[updated[j].location] = 2

\* C2: dedup returns exactly one record per distinct identity key of its input:
\* no key is missing, none appears twice, and the length of the output is the
\* number of distinct keys.
C2_OnePerKey ==
    stage \in {"dedup", "cross_fill"} =>
        /\ KeysOf(deduped) = KeysOf(tournaments)
        /\ \A i \in DOMAIN deduped : \A j \in DOMAIN deduped :
              IdentityKey(deduped[i]) = IdentityKey(deduped[j]) => i = j
        /\ Len(deduped) = Cardinality(KeysOf(tournaments))

\* dedup merged two records of one key and kept a record of another key
C2_Witness ==
    /\ stage = "dedup"
    /\ Len(tournaments) = 3
    /\ Len(deduped) = 2
    /\ \E i \in DOMAIN tournaments : \E k \in DOMAIN tournaments :
          /\ i # k
          /\ tournaments[i].title # tournaments[k].title
          /\ IdentityKey(tournaments[i]) = IdentityKey(tournaments[k])

\* C5: cross_fill_locations returns every record of precision 2 unchanged,
\* whatever else is in the list.
C5_FinePassThrough ==
    stage = "cross_fill" =>
        \A j \in DOMAIN deduped :
            PrecisionOf[deduped[j].location] = 2 => updated[j] = deduped[j]

\* c could donate to t, were t not fine: another position, the same start, a
\* fine location, ends at most a day apart, and similar enough titles
Donor(ts, j, k) ==
    /\ k # j
    /\ ts[k].start = ts[j].start
    /\ PrecisionOf[ts[k].location] = 2
    /\ Abs(ts[k].end - ts[j].end) <= 1
    /\ TokensOf[ts[j].title] # {}
    /\ TokensOf[ts[k].title] # {}
    /\ 100 * Cardinality(TokensOf[ts[j].title] \cap TokensOf[ts[k].title]) >=
           28 * Cardinality(TokensOf[ts[j].title] \cup TokensOf[ts[k].title])

\* a fine record passed through beside a record that would have donated another
\* fine location to it
C5_Witness ==
    /\ stage = "cross_fill"
    /\ \E j \in DOMAIN deduped : \E k \in DOMAIN deduped :
          /\ PrecisionOf[deduped[j].location] = 2
          /\ Donor(deduped, j, k)
          /\ deduped[k].location # deduped[j].location
          /\ updated[j] = deduped[j]

\* C6: cross_fill_locations returns a list of the length of its input, and the
\* record at each position differs from the input record at that position in
\* its location at most.
C6_OnlyLocationChanges ==
    stage = "cross_fill" =>
        /\ Len(updated) = Len(deduped)
        /\ \A j \in DOMAIN deduped :
              [updated[j] EXCEPT !.location = deduped[j].location] = deduped[j]

\* of three records one got a new location, and one had no donor
C6_Witness ==
    /\ stage = "cross_fill"
    /\ Len(deduped) = 3
    /\ \E j \in DOMAIN deduped : updated[j].location # deduped[j].location
    /\ \E j \in DOMAIN deduped :
          /\ PrecisionOf[deduped[j].location] < 2
          /\ \A k \in DOMAIN deduped : ~Donor(deduped, j, k)

\* C7: a record of precision below 2 takes a location only from a candidate
\* (another record of the same start, precision 2, end within a day) whose
\* title token sets are both non-empty and have 100*|A \cap B| >= 28*|A \cup B|;
\* and a record that has such a candidate, one at exactly 7/25 included, does
\* take the location of one.
C7_Threshold ==
    stage = "cross_fill" =>
        \A j \in DOMAIN deduped :
            PrecisionOf[deduped[j].location] < 2 =>
                /\ updated[j].location # deduped[j].location =>
                      \E k \in DOMAIN deduped :
                          /\ Donor(deduped, j, k)
                          /\ deduped[k].location = updated[j].location
                /\ (\E k \in DOMAIN deduped : Donor(deduped, j, k)) =>
                      updated[j].location # deduped[j].location

\* one record took the location of its only candidate, at exactly 7/25; another,
\* whose title has no token, kept its own beside the same candidate
C7_Witness ==
    /\ stage = "cross_fill"
    /\ \E j \in DOMAIN deduped : \E k \in DOMAIN deduped : \E e \in DOMAIN deduped :
          /\ Donor(deduped, j, k)
          /\ \A m \in DOMAIN deduped : Donor(deduped, j, m) => m = k
          /\ 25 * Cardinality(TokensOf[deduped[j].title] \cap TokensOf[deduped[k].title])
                = 7 * Cardinality(TokensOf[deduped[j].title] \cup TokensOf[deduped[k].title])
          /\ updated[j].location = deduped[k].location
          /\ updated[j].location # deduped[j].location
          /\ TokensOf[deduped[e].title] = {}
          /\ deduped[e].start = deduped[k].start
          /\ deduped[e].end = deduped[k].end
          /\ PrecisionOf[deduped[e].location] < 2
          /\ updated[e] = deduped[e]


-----------------------------------------------------------------------------
(* normalize_location applied to a raw string, and again to its own result *)

\* a string longer than MaxLocLen
LongPiece == [i \in 1..(MaxLocLen + 1) |-> "x"]

LocPieces == {
    TBA,
    <<"t","b","a">>,
    Slash,
    <<"P","a","r","i","s">>,
    <<"0","0">>,
    <<",", " ">>,
    <<"T","u","k","e","y">>,
    <<"c","a","l","e","n","d","a","r">>,
    <<"+">>,
    <<" ">>,
    <<"bullet">>,
    LongPiece }

RECURSIVE Concats(_)
Concats(n) == IF n = 0 THEN {<<>>}
              ELSE Concats(n - 1) \cup
                   {s \o p : s \in Concats(n - 1), p \in LocPieces}

LocInputs == Concats(MaxPieces) \cup {None}

InitNorm == /\ npc = "raw"
            /\ loc_in \in LocInputs
            /\ loc_once = None
            /\ loc_twice = None
            /\ ResolveIdle /\ MainIdle /\ ConflictIdle
            /\ EnrichIdle /\ CacheIdle /\ CallIdle

NormalizeOnce == /\ npc = "raw"
                 /\ loc_once' = normalize_location(loc_in)
                 /\ npc' = "once"
                 /\ UNCHANGED <<loc_in, loc_twice>>
                 /\ UNCHANGED <<mainVars, resolveVars, conflictVars>>
                 /\ UNCHANGED <<enrichVars, cacheVars, callVars>>

NormalizeAgain == /\ npc = "once"
                  /\ loc_twice' = normalize_location(loc_once)
                  /\ npc' = "twice"
                  /\ UNCHANGED <<loc_in, loc_once>>
                  /\ UNCHANGED <<mainVars, resolveVars, conflictVars>>
                  /\ UNCHANGED <<enrichVars, cacheVars, callVars>>

NextNorm == NormalizeOnce \/ NormalizeAgain

SpecNorm == InitNorm /\ [][NextNorm]_vars

\* C4: normalize_location is idempotent: normalizing the result of
\* normalize_location again gives the same result, for every input string.
C4_Idempotent == npc = "twice" => loc_twice = loc_once

\* the acceptance criteria of a location
Accepted(s) ==
    /\ s # <<>>
    /\ ~AllDigits1to6(s)
    /\ ~BadLocationSearch(s)
    /\ Len(s) <= MaxLocLen
    /\ s[1] \notin {"+", "bullet"}
    /\ Upper(s) # TBA

\* C14: every value other than None that normalize_location returns is not 1 to
\* 6 digits, has no denylisted term, is at most 140 characters long, does not
\* start with "+" or a bullet, and is not "TBA" in any case.
C14_ReturnsAccepted ==
    npc # "raw" => (loc_once = None \/ Accepted(loc_once))

-----------------------------------------------------------------------------
(* export_ics.py: build_conflict_set *)

\* ord(c)
CharCode(c) ==
    IF c \in DigitChars THEN 47 + IndexIn(c, DigitSeq)
    ELSE IF c \in UpperChars THEN 64 + IndexIn(c, UpperSeq)
    ELSE IF c \in LowerChars THEN 96 + IndexIn(c, LowerSeq)
    ELSE IF c = " " THEN 32
    ELSE IF c = "+" THEN 43
    ELSE IF c = "," THEN 44
    ELSE IF c = "-" THEN 45
    ELSE IF c = "/" THEN 47
    ELSE IF c = "_" THEN 95
    ELSE IF c = "E_acute" THEN 201
    ELSE IF c = "e_acute" THEN 233
    ELSE IF c = "emdash" THEN 8212
    ELSE 8226

\* ord, computed once for the characters of the model
CodeOf ==
    Tabulated([c \in UpperChars \cup LowerChars \cup DigitChars \cup
                     {" ", "+", ",", "-", "/", "_", "E_acute", "e_acute",
                      "emdash", "bullet"} |-> CharCode(c)])

\* a < b on two str
StrLess(a, b) ==
    LET diff == {i \in 1..Min({Len(a), Len(b)}) : a[i] # b[i]}
    IN  IF diff = {} THEN Len(a) < Len(b)
        ELSE LET k == Min(diff) IN CodeOf[a[k]] < CodeOf[b[k]]

\* (a.start, a.end, a.title) < (b.start, b.end, b.title)
KeyLess(a, b) ==
    \/ a.start < b.start
    \/ a.start = b.start /\ a.end < b.end
    \/ a.start = b.start /\ a.end = b.end /\ StrLess(a.title, b.title)

\* list.sort is stable: of two rows neither of which is before the other by the
\* key, the one that came first stays first
SortsBefore(rs, i, j) ==
    \/ KeyLess(rs[i], rs[j])
    \/ ~KeyLess(rs[j], rs[i]) /\ i < j

\* indexed after indexed.sort(key=...): the pairs <<position in rows, row>>
SortedIndexed(rs) ==
    LET before == Tabulated([i \in DOMAIN rs |->
                      Cardinality({j \in DOMAIN rs : SortsBefore(rs, j, i)})])
    IN  Tabulated([p \in DOMAIN rs |->
            LET i == CHOOSE i \in DOMAIN rs : before[i] = p - 1
            IN  <<i, rs[i]>>])

\* the inner loop with "if b.start >= a.end: break"
RECURSIVE InnerSweep_EarlyBreak(_, _, _, _)
InnerSweep_EarlyBreak(indexed, i, j, acc) ==
    IF j > Len(indexed) THEN acc
    ELSE LET a == indexed[i][2]
             b == indexed[j][2]
         IN  IF b.start >= a.end THEN acc
             ELSE IF a.start <= b.end /\ b.start <= a.end
                  THEN InnerSweep_EarlyBreak(indexed, i, j + 1,
                                             acc \cup {indexed[i][1], indexed[j][1]})
                  ELSE InnerSweep_EarlyBreak(indexed, i, j + 1, acc)

\* the inner loop with an overlap test that leaves the boundary days out
RECURSIVE InnerSweep_StrictOverlap(_, _, _, _)
InnerSweep_StrictOverlap(indexed, i, j, acc) ==
    IF j > Len(indexed) THEN acc
    ELSE LET a == indexed[i][2]
             b == indexed[j][2]
         IN  IF b.start > a.end THEN acc
             ELSE IF a.start < b.end /\ b.start < a.end
                  THEN InnerSweep_StrictOverlap(indexed, i, j + 1,
                                                acc \cup {indexed[i][1], indexed[j][1]})
                  ELSE InnerSweep_StrictOverlap(indexed, i, j + 1, acc)

\* the inner loop without conflict.add(idx_j)
RECURSIVE InnerSweep_FlagsFirstOnly(_, _, _, _)
InnerSweep_FlagsFirstOnly(indexed, i, j, acc) ==
    IF j > Len(indexed) THEN acc
    ELSE LET a == indexed[i][2]
             b == indexed[j][2]
         IN  IF b.start > a.end THEN acc
             ELSE IF a.start <= b.end /\ b.start <= a.end
                  THEN InnerSweep_FlagsFirstOnly(indexed, i, j + 1,
                                                 acc \cup {indexed[i][1]})
                  ELSE InnerSweep_FlagsFirstOnly(indexed, i, j + 1, acc)

\* for j in range(i + 1, len(indexed)), from j on, with conflict = acc
RECURSIVE InnerSweep(_, _, _, _)
InnerSweep(indexed, i, j, acc) ==
    IF j > Len(indexed) THEN acc
    ELSE LET a == indexed[i][2]
             b == indexed[j][2]
         IN  IF b.start > a.end THEN acc
             ELSE IF a.start <= b.end /\ b.start <= a.end
                  THEN InnerSweep(indexed, i, j + 1,
                                  acc \cup {indexed[i][1], indexed[j][1]})
                  ELSE InnerSweep(indexed, i, j + 1, acc)

\* for i in range(len(indexed)), from i on
RECURSIVE OuterSweep(_, _, _)
OuterSweep(indexed, i, acc) ==
    IF i > Len(indexed) THEN acc
    ELSE OuterSweep(indexed, i + 1, InnerSweep(indexed, i, i + 1, acc))

\* the set of positions in rows (from 1) of the rows in conflict
build_conflict_set(rs) == OuterSweep(SortedIndexed(rs), 1, {})

\* last day of the month of the rows
MaxDay == 3

Days == 1..MaxDay

RowTitles == {<<"O","p","e","n">>, <<"C","u","p">>}

\* what build_conflict_set reads of a row
Rows == [start : Days, end : Days, title : RowTitles]

InitConflict == /\ cpc = "rows"
                /\ \E n \in 0..MaxRows : rows \in [1..n -> Rows]
                /\ conflict = {}
                /\ NormIdle /\ MainIdle /\ ResolveIdle
                /\ EnrichIdle /\ CacheIdle /\ CallIdle

BuildConflictSet == /\ cpc = "rows"
                    /\ conflict' = build_conflict_set(rows)
                    /\ cpc' = "done"
                    /\ UNCHANGED rows
                    /\ UNCHANGED <<mainVars, normVars, resolveVars>>
                    /\ UNCHANGED <<enrichVars, cacheVars, callVars>>

NextConflict == BuildConflictSet

SpecConflict == InitConflict /\ [][NextConflict]_vars

\* every row has end >= start
WellFormed(rs) == \A i \in DOMAIN rs : rs[i].end >= rs[i].start

\* the day-spans of rows i and j share a day
Overlap(rs, i, j) == rs[i].start <= rs[j].end /\ rs[j].start <= rs[i].end

\* C3: for rows that all have end >= start, build_conflict_set returns exactly
\* the positions i for which another position j has start_i <= end_j and
\* start_j <= end_i.
C3_ExactOverlapSet ==
    (cpc = "done" /\ WellFormed(rows)) =>
        conflict = {i \in DOMAIN rows :
                        \E j \in DOMAIN rows : j # i /\ Overlap(rows, i, j)}

\* three rows, the sweep of the first of which stops at a row that starts after
\* it ends: two flagged, the third not
C3_Witness ==
    /\ cpc = "done"
    /\ WellFormed(rows)
    /\ Len(rows) = 3
    /\ Cardinality(conflict) = 2
    /\ LET indexed == SortedIndexed(rows)
       IN  /\ indexed[2][2].start <= indexed[1][2].end
           /\ indexed[3][2].start > indexed[2][2].end

\* C8: of rows that have end >= start, two with a.end = b.start are both
\* flagged; and when the list is two rows with b.start = a.end + 1, neither is.
C8_BoundaryDay ==
    cpc = "done" =>
        /\ WellFormed(rows) =>
              \A i \in DOMAIN rows : \A j \in DOMAIN rows :
                  (i # j /\ rows[i].end = rows[j].start) =>
                      (i \in conflict /\ j \in conflict)
        /\ (Len(rows) = 2 /\ \E i \in {1, 2} : \E j \in {1, 2} \ {i} :
                                rows[j].start = rows[i].end + 1) =>
              conflict = {}

\* two rows of more than one day each that share exactly their boundary day
C8_Witness ==
    /\ cpc = "done"
    /\ Len(rows) = 2
    /\ rows[1].start < rows[1].end
    /\ rows[1].end = rows[2].start
    /\ rows[2].start < rows[2].end
    /\ conflict = {1, 2}

\* C9: every flagged position has another flagged position whose day-span
\* overlaps its own, and the result never has exactly one element.
C9_Symmetric ==
    cpc = "done" =>
        /\ \A i \in conflict :
              \E j \in conflict : j # i /\ Overlap(rows, i, j)
        /\ Cardinality(conflict) # 1

\* the row given last sorts first and overlaps the row given first, not the
\* second
C9_Witness ==
    /\ cpc = "done"
    /\ Len(rows) = 3
    /\ conflict = {1, 3}
    /\ SortedIndexed(rows)[1][1] = 3

-----------------------------------------------------------------------------
(* fetch_tournaments.py: main *)

\* the first feeds of WPA_FEEDS: <<label, feed_url>>
WPA_FEEDS ==
    << <<"WPA_ALL", "https://wpapool.com/?mec-ical-feed=1">>,
       <<"WPA_HEYBALL", "https://wpapool.com/?mec-ical-feed=1&mec_categories=100">>,
       <<"WPA_MATCHROOM", "https://wpapool.com/?mec-ical-feed=1&mec_categories=63">> >>

MATCHROOM_SCHEDULE_URL == "https://matchroompool.com/schedule/"

PBS_FALLBACK_URLS ==
    << "https://77billiards.com/2025/12/10/predator-pro-billiard-series-reveals-stacked-2026-schedule/",
       "https://alison-chang.com/us-pro-billiard-series-announces-2026-season-schedule-across-four-major-cities/" >>

\* EPBF_CALENDAR_YEAR_URL.format(year=from_d.year + k - 1), from_d in 2026
EPBF_CALENDAR_YEAR_URL ==
    << "https://www.epbf.com/calendar/2026/", "https://www.epbf.com/calendar/2027/",
       "https://www.epbf.com/calendar/2028/", "https://www.epbf.com/calendar/2029/" >>

\* what a page says of an event that is_upcoming_or_ongoing lets through
Events == {[title |-> "A", start |-> 1, end |-> 2, location |-> None],
           [title |-> "A2", start |-> 1, end |-> 2, location |-> Paris],
           [title |-> "B", start |-> 1, end |-> 1, location |-> Usa]}

\* what the fallback article says of a stop: a venue line, then a date line
PbsStops == {[title |-> "P", start |-> 1, end |-> 2,
              location |-> normalize_location(Paris)]}

\* an entry of a page: malformed when its date does not parse (a VEVENT
\* without DTSTART, "Feb 30 - 31", ...)
Entries(evs) == [ev : evs, malformed : BOOLEAN]

\* the responses to http_get of a page: an error, or the entries of the page
Responses(evs) ==
    {[ok |-> FALSE, entries |-> <<>>]} \cup
    {[ok |-> TRUE, entries |-> es] :
        es \in UNION {[1..n -> Entries(evs)] : n \in 0..MaxPerSource}}

\* the first malformed entry, or past the end
FirstMalformed(es) ==
    Min({i \in DOMAIN es : es[i].malformed} \cup {Len(es) + 1})

\* the try block of one feed raises
WpaFeedRaises(resp) == ~resp.ok \/ FirstMalformed(resp.entries) <= Len(resp.entries)

\* what the try block of feed f appends to out before it ends or raises
WpaFeedRecords(f, resp) ==
    [k \in 1..(FirstMalformed(resp.entries) - 1) |->
        LET ev == resp.entries[k].ev
        IN  Tournament(ev.title, "WPA", ev.start, ev.end, ev.location,
                       WPA_FEEDS[f][1], "WPA iCal feed", WPA_FEEDS[f][2])]

\* out of fetch_wpa_ics, given the response of each feed
fetch_wpa_ics(resps) == Join([f \in DOMAIN resps |-> WpaFeedRecords(f, resps[f])])

\* the entries whose date parses
WellFormedEntries(es) == SelectSeq(es, LAMBDA e : ~e.malformed)

\* out of fetch_matchroom when http_get returns: anchors whose date does not
\* parse are skipped
fetch_matchroom(resp) ==
    LET es == WellFormedEntries(resp.entries)
    IN  [k \in DOMAIN es |->
            Tournament(es[k].ev.title, "Matchroom", es[k].ev.start, es[k].ev.end,
                       es[k].ev.location, "WNT", "Matchroom schedule",
                       MATCHROOM_SCHEDULE_URL)]

\* date(...) of a date line raises in fetch_pbs_fallback: nothing catches it
PbsRaises(resps) ==
    \E u \in DOMAIN resps :
        FirstMalformed(resps[u].entries) <= Len(resps[u].entries)

\* out of fetch_pbs_fallback when no date line raises: a URL whose http_get
\* fails is skipped
fetch_pbs_fallback(resps) ==
    Join([u \in DOMAIN resps |->
            [k \in DOMAIN resps[u].entries |->
                LET ev == resps[u].entries[k].ev
                IN  Tournament(ev.title, "Predator/PBS", ev.start, ev.end,
                               ev.location, "PBS 2026 (fallback)",
                               "Fallback article scrape", PBS_FALLBACK_URLS[u])]])

\* out of fetch_epbf for the k-th year when http_get returns: rows whose date
\* does not parse are skipped
fetch_epbf(k, resp) ==
    LET es == WellFormedEntries(resp.entries)
    IN  [i \in DOMAIN es |->
            Tournament(es[i].ev.title, "EPBF", es[i].ev.start, es[i].ev.end,
                       es[i].ev.location, "EPBF Calendar", "EPBF calendar table",
                       EPBF_CALENDAR_YEAR_URL[k])]

\* (a.start, a.title) < (b.start, b.title)
StartTitleLess(a, b) ==
    \/ a.start < b.start
    \/ a.start = b.start /\ StrLess(TitleText[a.title], TitleText[b.title])

\* sorted(all_t, key=lambda x: (x.start, x.title)): sorted is stable
sorted_by_start_title(ts) ==
    [p \in DOMAIN ts |->
        LET Before(j, i) == \/ StartTitleLess(ts[j], ts[i])
                            \/ ~StartTitleLess(ts[i], ts[j]) /\ j < i
        IN  ts[CHOOSE i \in DOMAIN ts :
                  Cardinality({j \in DOMAIN ts : Before(j, i)}) = p - 1]]

Init == /\ pc = "wpa"
        /\ all_t = <<>>
        /\ years \in 1..MaxYears
        /\ y = 0
        /\ failed = {}
        /\ NormIdle /\ ResolveIdle /\ ConflictIdle
        /\ EnrichIdle /\ CacheIdle /\ CallIdle

\* all_t.extend(fetch_wpa_ics(...)): each feed in its own try/except
FetchWpa ==
    /\ pc = "wpa"
    /\ \E resps \in [1..MaxFeeds -> Responses(Events)] :
          /\ all_t' = all_t \o fetch_wpa_ics(resps)
          /\ failed' = IF \E f \in DOMAIN resps : WpaFeedRaises(resps[f])
                       THEN failed \cup {"WPA"} ELSE failed
    /\ pc' = "matchroom"
    /\ UNCHANGED <<years, y>>
    /\ UNCHANGED <<resolveVars, normVars, conflictVars>>
    /\ UNCHANGED <<enrichVars, cacheVars, callVars>>

\* all_t.extend(fetch_matchroom(...)): http_get of the schedule page is outside
\* any try, and so is the call in main
FetchMatchroom ==
    /\ pc = "matchroom"
    /\ \E resp \in Responses(Events) :
          IF resp.ok
          THEN /\ all_t' = all_t \o fetch_matchroom(resp)
               /\ pc' = "pbs"
          ELSE /\ pc' = "aborted"
               /\ UNCHANGED all_t
    /\ UNCHANGED <<years, y, failed>>
    /\ UNCHANGED <<resolveVars, normVars, conflictVars>>
    /\ UNCHANGED <<enrichVars, cacheVars, callVars>>

\* all_t.extend(fetch_pbs_fallback(from_d)): http_get of each URL is in a try,
\* the construction of the dates is not, and neither is the call in main
FetchPbs ==
    /\ pc = "pbs"
    /\ \E resps \in [DOMAIN PBS_FALLBACK_URLS -> Responses(PbsStops)] :
          /\ IF PbsRaises(resps)
             THEN /\ pc' = "aborted"
                  /\ UNCHANGED all_t
             ELSE /\ all_t' = all_t \o fetch_pbs_fallback(resps)
                  /\ pc' = "epbf"
          /\ failed' = IF \E u \in DOMAIN resps :
                              /\ ~resps[u].ok
                              /\ \A v \in 1..(u - 1) :
                                    FirstMalformed(resps[v].entries)
                                        > Len(resps[v].entries)
                       THEN failed \cup {"PBS"} ELSE failed
    /\ UNCHANGED <<years, y>>
    /\ UNCHANGED <<resolveVars, normVars, conflictVars>>
    /\ UNCHANGED <<enrichVars, cacheVars, callVars>>

\* one turn of "for y in range(from_d.year, from_d.year + years)"
FetchEpbf ==
    /\ pc = "epbf"
    /\ y < years
    /\ \E resp \in Responses(Events) :
          IF resp.ok
          THEN /\ all_t' = all_t \o fetch_epbf(y + 1, resp)
               /\ UNCHANGED failed
          ELSE /\ failed' = failed \cup {"EPBF"}
               /\ UNCHANGED all_t
    /\ y' = y + 1
    /\ UNCHANGED <<pc, years>>
    /\ UNCHANGED <<resolveVars, normVars, conflictVars>>
    /\ UNCHANGED <<enrichVars, cacheVars, callVars>>

\* all_t = dedup(all_t), after the last year
MainDedup ==
    /\ pc = "epbf"
    /\ y = years
    /\ all_t' = dedup(all_t)
    /\ pc' = "cross_fill"
    /\ UNCHANGED <<years, y, failed>>
    /\ UNCHANGED <<resolveVars, normVars, conflictVars>>
    /\ UNCHANGED <<enrichVars, cacheVars, callVars>>

\* all_t = cross_fill_locations(all_t)
MainCrossFill ==
    /\ pc = "cross_fill"
    /\ all_t' = cross_fill_locations(all_t)
    /\ pc' = "sort"
    /\ UNCHANGED <<years, y, failed>>
    /\ UNCHANGED <<resolveVars, normVars, conflictVars>>
    /\ UNCHANGED <<enrichVars, cacheVars, callVars>>

\* all_t = sorted(all_t, key=lambda x: (x.start, x.title))
MainSort ==
    /\ pc = "sort"
    /\ all_t' = sorted_by_start_title(all_t)
    /\ pc' = "export"
    /\ UNCHANGED <<years, y, failed>>
    /\ UNCHANGED <<resolveVars, normVars, conflictVars>>
    /\ UNCHANGED <<enrichVars, cacheVars, callVars>>

\* export_excel(all_t, args.out), the report, return 0
Export ==
    /\ pc = "export"
    /\ pc' = "done"
    /\ UNCHANGED <<all_t, years, y, failed>>
    /\ UNCHANGED <<resolveVars, normVars, conflictVars>>
    /\ UNCHANGED <<enrichVars, cacheVars, callVars>>

Next == \/ FetchWpa
        \/ FetchMatchroom
        \/ FetchPbs
        \/ FetchEpbf
        \/ MainDedup
        \/ MainCrossFill
        \/ MainSort
        \/ Export

Spec == Init /\ [][Next]_vars

\* C10: no failure of a single source aborts the run: main never ends on an
\* exception that a fetcher let through.
C10_NeverAborts == pc # "aborted"

-----------------------------------------------------------------------------
(* dedup applied to a list and to the same list in another order *)

\* the orders in which n records can arrive
PermsOf ==
    Tabulated([n \in 0..MaxRecs |->
        {p \in [1..n -> 1..n] : \A i \in 1..n : \A j \in 1..n :
                                    p[i] = p[j] => i = j}])

\* ts in the order p
Permuted(ts, p) == Tabulated([i \in DOMAIN ts |-> ts[p[i]]])

\* records of three titles, two of one slug, that start on two days
OrderRecords ==
    {r \in Records : r.title \in {"A", "A2", "B"} /\ r.end = r.start}

InitOrder == /\ fpc = "list"
             /\ \E n \in 0..MaxRecs : arg \in [1..n -> OrderRecords]
             /\ ret = <<>>
             /\ NormIdle /\ MainIdle /\ ResolveIdle
             /\ ConflictIdle /\ EnrichIdle /\ CacheIdle

\* dedup of the list as given and of the list in the order p
DedupBothOrders ==
    /\ fpc = "list"
    /\ \E p \in PermsOf[Len(arg)] :
          ret' = [order |-> p, given |-> dedup(arg),
                  permuted |-> dedup(Permuted(arg, p))]
    /\ fpc' = "dedup"
    /\ UNCHANGED arg
    /\ UNCHANGED <<mainVars, normVars, resolveVars>>
    /\ UNCHANGED <<conflictVars, enrichVars, cacheVars>>

NextOrder == DedupBothOrders

SpecOrder == InitOrder /\ [][NextOrder]_vars

\* the records of ts of the key of t that have the highest precision among the
\* records of that key
BestOfKey(ts, t) ==
    LET bucket == {ts[k] : k \in {k \in DOMAIN ts :
                                     IdentityKey(ts[k]) = IdentityKey(t)}}
    IN  {r \in bucket : \A r2 \in bucket :
                PrecisionOf[r.location] >= PrecisionOf[r2.location]}

\* C15: for any order of the input list, dedup gives the same set of identity
\* keys and the same location precision for each key, and for a key one of
\* whose records has a precision above all others of the key, that record.
C15_OrderIndependent ==
    fpc = "dedup" =>
        /\ KeysOf(ret.permuted) = KeysOf(ret.given)
        /\ \A i \in DOMAIN ret.permuted : \A j \in DOMAIN ret.given :
              IdentityKey(ret.permuted[i]) = IdentityKey(ret.given[j]) =>
                  /\ PrecisionOf[ret.permuted[i].location] =
                         PrecisionOf[ret.given[j].location]
                  /\ Cardinality(BestOfKey(arg, ret.given[j])) = 1 =>
                         /\ ret.permuted[i] = ret.given[j]
                         /\ ret.given[j] \in BestOfKey(arg, ret.given[j])

\* three spellings and precisions of one key, the fine one in the middle, taken
\* in the reverse order: dedup returns the fine one both times
C15_Witness ==
    /\ fpc = "dedup"
    /\ Len(arg) = 3
    /\ ret.order = <<3, 2, 1>>
    /\ PrecisionOf[arg[1].location] = 1
    /\ PrecisionOf[arg[2].location] = 2
    /\ PrecisionOf[arg[3].location] = 0
    /\ arg[1].title # arg[2].title
    /\ ret.given = <<arg[2]>>
    /\ ret.permuted = <<arg[2]>>

\* the positions in ts of the records of the key of t
PositionsOfKey(ts, t) ==
    {k \in DOMAIN ts : IdentityKey(ts[k]) = IdentityKey(t)}

\* the first position in ts, among those of the key of t, of a record of the
\* highest precision found at those positions
FirstBestOfKey(ts, t) ==
    LET ks == PositionsOfKey(ts, t)
    IN  Min({k \in ks : \A k2 \in ks :
                PrecisionOf[ts[k].location] >= PrecisionOf[ts[k2].location]})

\* C16: for each identity key, dedup outputs the earliest record in input
\* order among the records of that key that have the highest precision of the
\* key.
C16_EarliestBest ==
    fpc = "dedup" =>
        \A j \in DOMAIN ret.given :
            ret.given[j] = arg[FirstBestOfKey(arg, ret.given[j])]

\* a coarse record, then two fine records of the same key, which differ: the
\* second record is output, neither the first nor the last
C16_Witness ==
    /\ fpc = "dedup"
    /\ Len(arg) = 3
    /\ PositionsOfKey(arg, arg[1]) = {1, 2, 3}
    /\ PrecisionOf[arg[1].location] = 1
    /\ PrecisionOf[arg[2].location] = 2
    /\ PrecisionOf[arg[3].location] = 2
    /\ arg[3] # arg[2]
    /\ ret.given = <<arg[2]>>

\* values of Optional[str], the empty and the blank string among them
OptionalStrings == Locations \cup {<<>>, <<" ">>}

OptionalPrecisionOf ==
    Tabulated([l \in OptionalStrings |-> location_precision(l)])

\* C19: every record dedup returns is one of the input records, field for
\* field: no record is built by copying a location into another record, as of
\* two locations of equal precision the second is missing when the first is.
C19_OutputsAreInputs ==
    /\ fpc = "dedup" =>
          \A j \in DOMAIN ret.given :
              \E i \in DOMAIN arg : ret.given[j] = arg[i]
    /\ \A la \in OptionalStrings : \A lb \in OptionalStrings :
          (OptionalPrecisionOf[la] = OptionalPrecisionOf[lb] /\ Falsy(la)) =>
              Falsy(lb)

\* two records of one key and no location, in two spellings, then one with a
\* location: choose_better met a tie of two records without location, and the
\* output is the third record as it came
C19_Witness ==
    /\ fpc = "dedup"
    /\ Len(arg) = 3
    /\ PositionsOfKey(arg, arg[1]) = {1, 2, 3}
    /\ Falsy(arg[1].location)
    /\ Falsy(arg[2].location)
    /\ arg[1].title # arg[2].title
    /\ arg[3].title # arg[1].title
    /\ ~Falsy(arg[3].location)
    /\ ret.given = <<arg[3]>>

-----------------------------------------------------------------------------
(* cross_fill_locations applied to a list of records *)

\* records of four titles, two of them of the same tokens
FillRecords == {r \in Records : r.title \in {"A", "A2", "B", "C"}}

InitFill == /\ fpc = "list"
            /\ \E n \in 0..MaxRecs : arg \in [1..n -> FillRecords]
            /\ ret = <<>>
            /\ NormIdle /\ MainIdle /\ ResolveIdle
            /\ ConflictIdle /\ EnrichIdle /\ CacheIdle

CrossFillList ==
    /\ fpc = "list"
    /\ ret' = cross_fill_locations(arg)
    /\ fpc' = "cross_fill"
    /\ UNCHANGED arg
    /\ UNCHANGED <<mainVars, normVars, resolveVars>>
    /\ UNCHANGED <<conflictVars, enrichVars, cacheVars>>

NextFill == CrossFillList

SpecFill == InitFill /\ [][NextFill]_vars

\* the similarity of the titles at positions j and k is below that at j and m
SimLess(ts, j, k, m) ==
    FracLess(JaccardOf[<<ts[j].title, ts[k].title>>],
             JaccardOf[<<ts[j].title, ts[m].title>>])

\* the positions whose record donates to the record at position j: the
\* candidates of the highest similarity, and of these the earliest
BestDonors(ts, j) ==
    {k \in DOMAIN ts :
        /\ Donor(ts, j, k)
        /\ \A m \in DOMAIN ts :
              Donor(ts, j, m) => /\ ~SimLess(ts, j, k, m)
                                 /\ SimLess(ts, j, m, k) \/ m >= k}

\* C17: a record of precision below 2 comes out with the location of the
\* candidate (another position, same start, precision 2, end within a day,
\* similarity at least 0.28) of the highest similarity, the earliest of the list
\* among equals, and all its other fields as they were; it comes out unchanged
\* when it has no candidate. So no record of another start, of precision below
\* 2 or of an end more than a day away gives its location.
C17_BestDonor ==
    fpc = "cross_fill" =>
        \A j \in DOMAIN arg :
            PrecisionOf[arg[j].location] < 2 =>
                /\ \A k \in BestDonors(arg, j) :
                      ret[j] = [arg[j] EXCEPT !.location = arg[k].location]
                /\ BestDonors(arg, j) = {} => ret[j] = arg[j]
                /\ Cardinality(BestDonors(arg, j)) <= 1
                /\ (\E k \in DOMAIN arg : Donor(arg, j, k)) =>
                      BestDonors(arg, j) # {}

\* a record took the location of the first of two candidates of one similarity
\* that hold different locations
C17_Witness ==
    /\ fpc = "cross_fill"
    /\ Len(arg) = 3
    /\ PrecisionOf[arg[1].location] < 2
    /\ Donor(arg, 1, 2)
    /\ Donor(arg, 1, 3)
    /\ ~SimLess(arg, 1, 2, 3)
    /\ ~SimLess(arg, 1, 3, 2)
    /\ arg[2].location # arg[3].location
    /\ ret[1].location = arg[2].location

\* C20: the record cross_fill_locations returns at a position is the one its
\* loop body computes for that position from the input list alone, whatever the
\* rounds before it appended; a location that changed is that of a record that
\* had precision 2 in the input list; and every location of the output is the
\* location of some input record.
C20_DonorsFromInput ==
    fpc = "cross_fill" =>
        /\ Len(ret) = Len(arg)
        /\ \A j \in DOMAIN arg :
              /\ ret[j] = CrossFillOne(arg, j)
              /\ ret[j].location # arg[j].location =>
                    \E k \in DOMAIN arg \ {j} :
                        /\ arg[k].location = ret[j].location
                        /\ PrecisionOf[arg[k].location] = 2
                        /\ arg[k].start = arg[j].start
              /\ \E k \in DOMAIN arg : arg[k].location = ret[j].location

\* the first record was upgraded, and the third, for which the upgraded first
\* record would be a candidate and the second is none, stayed as it was
C20_Witness ==
    /\ fpc = "cross_fill"
    /\ Len(arg) = 3
    /\ ret[1].location # arg[1].location
    /\ PrecisionOf[arg[3].location] < 2
    /\ Donor(ret, 3, 1)
    /\ ~Donor(arg, 3, 2)
    /\ ret[3] = arg[3]

\* @lru_cache(maxsize=1024)
LruMaxSize == 1024

\* the detail pages the model tells apart; any other URL is requested once in
\* a run and never again
DetailUrls == {"https://wpapool.com/event/a/", "https://www.epbf.com/event/b/"}

\* not a URL: the event has no detail link
NoUrl == "None"

\* The cache holds its entries from the most recently used (rank 1) to the
\* least recently used (rank cache_size); rank 0 is a URL that is not in it.
\* ranks after a call for u, which is in the cache
RanksAfterHit(rank, u) ==
    [v \in DOMAIN rank |->
        IF v = u THEN 1
        ELSE IF rank[v] > 0 /\ rank[v] < rank[u] THEN rank[v] + 1
        ELSE rank[v]]

\* ranks after a call for a URL that is not in the cache: in a full cache the
\* least recently used entry goes, every other entry is one older
RanksAfterMiss(rank, size) ==
    [v \in DOMAIN rank |->
        IF rank[v] = 0 THEN 0
        ELSE IF size = LruMaxSize /\ rank[v] = size THEN 0
        ELSE rank[v] + 1]

SizeAfterMiss(size) == IF size = LruMaxSize THEN size ELSE size + 1

\* what fetch_location_from_page returns: None (http_get failed, or no strategy
\* found a location), or a location
PageResults == {None, Paris}

EmptyCache == /\ cache_rank = [u \in DetailUrls |-> 0]
              /\ cache_val = [u \in DetailUrls |-> None]
              /\ cache_size = 0
              /\ gets = [u \in DetailUrls |-> 0]

\* fetch_location_from_page(u) for u of DetailUrls, through the lru_cache: the
\* body runs, with its http_get, only when u is not in the cache, and what it
\* returns is cached whether http_get failed (None) or not
CachedFetch(u) ==
    IF cache_rank[u] > 0
    THEN /\ cache_rank' = RanksAfterHit(cache_rank, u)
         /\ UNCHANGED <<cache_val, cache_size, gets>>
    ELSE /\ \E r \in PageResults : cache_val' = [cache_val EXCEPT ![u] = r]
         /\ cache_rank' = [RanksAfterMiss(cache_rank, cache_size) EXCEPT ![u] = 1]
         /\ cache_size' = SizeAfterMiss(cache_size)
         /\ gets' = [gets EXCEPT ![u] = @ + 1]

\* fetch_location_from_page of a URL outside DetailUrls: never in the cache
OtherFetch ==
    /\ cache_rank' = RanksAfterMiss(cache_rank, cache_size)
    /\ cache_size' = SizeAfterMiss(cache_size)
    /\ UNCHANGED <<cache_val, gets>>

\* the URL whose fetches the run of SpecCache counts
TrackedUrl == "https://wpapool.com/event/a/"

InitCache == /\ EmptyCache
             /\ NormIdle /\ MainIdle /\ ResolveIdle
             /\ ConflictIdle /\ EnrichIdle /\ CallIdle

\* an enrichment request for the tracked URL
RequestTracked ==
    /\ cache_rank[TrackedUrl] > 0 \/ gets[TrackedUrl] < MaxGets
    /\ CachedFetch(TrackedUrl)
    /\ UNCHANGED <<mainVars, normVars, resolveVars>>
    /\ UNCHANGED <<conflictVars, enrichVars, callVars>>

\* an enrichment request for a URL not requested before
RequestOther ==
    /\ OtherFetch
    /\ UNCHANGED <<mainVars, normVars, resolveVars>>
    /\ UNCHANGED <<conflictVars, enrichVars, callVars>>

NextCache == RequestTracked \/ RequestOther

SpecCache == InitCache /\ [][NextCache]_vars

\* C12: over any sequence of requests, http_get is performed at most once for
\* a URL, however many other URLs are requested in between.
C12_FetchedOnce == \A u \in DOMAIN gets : gets[u] <= 1

-----------------------------------------------------------------------------
(* fetch_tournaments.py: the enrichment budgets of a run of main *)

Sources == {"WPA", "Matchroom", "EPBF"}

\* cand = fetch_location_from_page(u); enrich_count += 1, in a fetcher of src;
\* fetches counts the calls that reach http_get
Enrich(src, u) ==
    /\ CachedFetch(u)
    /\ fetches' = [fetches EXCEPT ![src] = IF cache_rank[u] > 0 THEN @ ELSE @ + 1]
    /\ enrich_count' = enrich_count + 1

InitEnrich ==
    /\ epc = "wpa"
    /\ limit \in [Sources -> 0..MaxLimit]
    /\ eyears \in 1..MaxYears
    /\ ey = 0
    /\ enrich_count = 0
    /\ fetches = [src \in Sources |-> 0]
    /\ EmptyCache
    /\ NormIdle /\ MainIdle /\ ResolveIdle
    /\ ConflictIdle /\ CallIdle

\* one VEVENT of a feed in fetch_wpa_ics: enrich_count is shared by the feeds
WpaEvent ==
    /\ epc = "wpa"
    /\ \E loc \in {None, Usa}, detail_url \in DetailUrls \cup {NoUrl} :
          IF Falsy(loc) /\ detail_url # NoUrl /\ enrich_count < limit["WPA"]
          THEN Enrich("WPA", detail_url)
          ELSE UNCHANGED <<enrich_count, fetches, cacheVars>>
    /\ UNCHANGED <<epc, limit, eyears, ey>>
    /\ UNCHANGED <<mainVars, normVars, resolveVars>>
    /\ UNCHANGED <<conflictVars, callVars>>

\* fetch_wpa_ics returns; main calls fetch_matchroom, whose enrich_count is 0
WpaReturn ==
    /\ epc = "wpa"
    /\ epc' = "matchroom"
    /\ enrich_count' = 0
    /\ UNCHANGED <<limit, eyears, ey, fetches, cacheVars>>
    /\ UNCHANGED <<mainVars, normVars, resolveVars>>
    /\ UNCHANGED <<conflictVars, callVars>>

\* one anchor of the schedule page in fetch_matchroom
MatchroomAnchor ==
    /\ epc = "matchroom"
    /\ \E href \in DetailUrls :
          IF enrich_count < limit["Matchroom"]
          THEN Enrich("Matchroom", href)
          ELSE UNCHANGED <<enrich_count, fetches, cacheVars>>
    /\ UNCHANGED <<epc, limit, eyears, ey>>
    /\ UNCHANGED <<mainVars, normVars, resolveVars>>
    /\ UNCHANGED <<conflictVars, callVars>>

\* fetch_matchroom returns; main calls fetch_epbf for the first year
MatchroomReturn ==
    /\ epc = "matchroom"
    /\ epc' = "epbf"
    /\ enrich_count' = 0
    /\ UNCHANGED <<limit, eyears, ey, fetches, cacheVars>>
    /\ UNCHANGED <<mainVars, normVars, resolveVars>>
    /\ UNCHANGED <<conflictVars, callVars>>

\* one table row in fetch_epbf; fetch_epbf_location_from_link has a cache of
\* its own in front of fetch_location_from_page, which holds no URL that the
\* cache of fetch_location_from_page does not hold
EpbfRow ==
    /\ epc = "epbf"
    /\ \E loc \in Locations, link_url \in DetailUrls \cup {NoUrl} :
          IF /\ PrecisionOf[loc] <= 1
             /\ link_url # NoUrl
             /\ enrich_count < limit["EPBF"]
          THEN Enrich("EPBF", link_url)
          ELSE UNCHANGED <<enrich_count, fetches, cacheVars>>
    /\ UNCHANGED <<epc, limit, eyears, ey>>
    /\ UNCHANGED <<mainVars, normVars, resolveVars>>
    /\ UNCHANGED <<conflictVars, callVars>>

\* fetch_epbf returns (or raises); the loop of main calls it for the next
\* year, with enrich_count = 0 again, or ends
EpbfReturn ==
    /\ epc = "epbf"
    /\ ey' = ey + 1
    /\ epc' = IF ey + 1 = eyears THEN "done" ELSE "epbf"
    /\ enrich_count' = 0
    /\ UNCHANGED <<limit, eyears, fetches, cacheVars>>
    /\ UNCHANGED <<mainVars, normVars, resolveVars>>
    /\ UNCHANGED <<conflictVars, callVars>>

NextEnrich == \/ WpaEvent
              \/ WpaReturn
              \/ MatchroomAnchor
              \/ MatchroomReturn
              \/ EpbfRow
              \/ EpbfReturn

SpecEnrich == InitEnrich /\ [][NextEnrich]_vars

\* C11: in a run, the detail pages fetched for a source never outnumber the
\* enrich limit given for that source, however many years EPBF is asked for;
\* with a limit of 0 none is fetched.
C11_WithinBudget == \A src \in DOMAIN fetches : fetches[src] <= limit[src]

-----------------------------------------------------------------------------
(* fetch_tournaments.py: the dates of the records the fetchers append *)

\* MONTH_ABBR / MONTH_FULL of the months of the model
MonthNumber == [apr |-> 4, may |-> 5]

Months == DOMAIN MonthNumber

\* days of the month in the texts of the model
MonthDays == {1, 2, 30}

\* date(2026, mon, d) as a day number: April 1st is 1, May 1st is 31
date(mon, d) == (MonthNumber[mon] - 4) * 30 + d

\* from_d of the run
FromDates == {date("apr", 1), date("apr", 2)}

is_upcoming_or_ongoing(start_d, end_d, from_d) ==
    (start_d >= from_d) \/ (start_d < from_d /\ from_d <= end_d)

\* DTSTART / DTEND of a VEVENT: a date, or a datetime (a date and a time of day)
IcalTimes == [day : {date("apr", 1), date("apr", 2), date("apr", 3)},
              is_datetime : BOOLEAN]

\* x.date() if isinstance(x, datetime) else x
ics_dt_to_date(x) == x.day

\* the DTEND of a VEVENT: <<>> when it has none, else <<its value>>
OptionalIcalTimes == {<<>>} \cup {<<x>> : x \in IcalTimes}

\* start_d, end_d of fetch_wpa_ics
WpaDates(dtstart, dtend) ==
    LET start_d == ics_dt_to_date(dtstart)
    IN  <<start_d,
          IF dtend = <<>> THEN start_d ELSE ics_dt_to_date(dtend[1]) - 1>>

\* the groups of the pattern that matches the text of a date range
\* "12-14 apr"
EpbfForm1 == [form : {1}, d1 : MonthDays, d2 : MonthDays, mon : Months]
\* "30 apr - 2 may"
EpbfForm2 == [form : {2}, d1 : MonthDays, mon1 : Months, d2 : MonthDays,
              mon2 : Months]
\* "30 apr - 1-2 may"
EpbfForm3 == [form : {3}, d1 : MonthDays, mon1 : Months, d3 : MonthDays,
              mon2 : Months]

\* parse_epbf_date_range of a text one of the patterns matches
parse_epbf_date_range(m) ==
    IF m.form = 1 THEN <<date(m.mon, m.d1), date(m.mon, m.d2)>>
    ELSE IF m.form = 2 THEN <<date(m.mon1, m.d1), date(m.mon2, m.d2)>>
    ELSE <<date(m.mon1, m.d1), date(m.mon2, m.d3)>>

\* "April 12 - 14 2026"
MatchroomForm1 == [form : {1}, mon : Months, d1 : MonthDays, d2 : MonthDays]
\* "April 30 - May 2 2026"
MatchroomForm2 == [form : {2}, mon1 : Months, d1 : MonthDays, mon2 : Months,
                   d2 : MonthDays]

\* parse_matchroom_date_range of a text one of the patterns matches
parse_matchroom_date_range(m) ==
    IF m.form = 1 THEN <<date(m.mon, m.d1), date(m.mon, m.d2)>>
    ELSE <<date(m.mon1, m.d1), date(m.mon2, m.d2)>>

\* the groups of date_rx in fetch_pbs_fallback: "Apr 30 - 2", "Apr 30 - May 2";
\* mon2 is None when the text names one month
PbsDateLines == [mon1 : Months, d1 : MonthDays, mon2 : Months \cup {"None"},
                 d2 : MonthDays]

\* start_d, end_d of fetch_pbs_fallback
PbsDates(m) ==
    <<date(m.mon1, m.d1),
      date(IF m.mon2 = "None" THEN m.mon1 ELSE m.mon2, m.d2)>>

InitDates == /\ fpc = "page"
             /\ arg = <<>>
             /\ ret = <<>>
             /\ NormIdle /\ MainIdle /\ ResolveIdle
             /\ ConflictIdle /\ EnrichIdle /\ CacheIdle

\* a fetcher appends Tournament(..., start=d[1], end=d[2], ...) when the dates
\* pass is_upcoming_or_ongoing, and goes on to the next entry otherwise
AppendIfUpcoming(organizer, input, d) ==
    /\ \E from_d \in FromDates :
          IF is_upcoming_or_ongoing(d[1], d[2], from_d)
          THEN /\ fpc' = "appended"
               /\ ret' = [organizer |-> organizer, start |-> d[1], end |-> d[2]]
          ELSE /\ fpc' = "skipped"
               /\ ret' = <<>>
    /\ arg' = input

\* fetch_wpa_ics on one VEVENT
WpaAppend ==
    /\ \E dtstart \in IcalTimes, dtend \in OptionalIcalTimes :
          AppendIfUpcoming("WPA", <<dtstart, dtend>>, WpaDates(dtstart, dtend))
    /\ UNCHANGED <<mainVars, normVars, resolveVars>>
    /\ UNCHANGED <<conflictVars, enrichVars, cacheVars>>

\* fetch_matchroom on one anchor
MatchroomAppend ==
    /\ \E m \in MatchroomForm1 \cup MatchroomForm2 :
          AppendIfUpcoming("Matchroom", m, parse_matchroom_date_range(m))
    /\ UNCHANGED <<mainVars, normVars, resolveVars>>
    /\ UNCHANGED <<conflictVars, enrichVars, cacheVars>>

\* fetch_epbf on one table row
EpbfAppend ==
    /\ \E m \in EpbfForm1 \cup EpbfForm2 \cup EpbfForm3 :
          AppendIfUpcoming("EPBF", m, parse_epbf_date_range(m))
    /\ UNCHANGED <<mainVars, normVars, resolveVars>>
    /\ UNCHANGED <<conflictVars, enrichVars, cacheVars>>

\* fetch_pbs_fallback on one date line
PbsAppend ==
    /\ \E m \in PbsDateLines :
          AppendIfUpcoming("Predator/PBS", m, PbsDates(m))
    /\ UNCHANGED <<mainVars, normVars, resolveVars>>
    /\ UNCHANGED <<conflictVars, enrichVars, cacheVars>>

NextDates == WpaAppend \/ MatchroomAppend \/ EpbfAppend \/ PbsAppend

SpecDates == InitDates /\ [][NextDates]_vars

\* C13: every record a fetcher appends has end >= start.
C13_EndNotBeforeStart == fpc = "appended" => ret.end >= ret.start

-----------------------------------------------------------------------------
(* fetch_tournaments.py: fetch_location_from_page on the page of one URL *)

\* [p.strip() for p in s.split(",")]
RECURSIVE SplitComma(_)
SplitComma(s) ==
    IF ~Contains(s, <<",">>) THEN <<Strip(s)>>
    ELSE LET k == Find(s, <<",">>)
         IN  <<Strip(SubSeq(s, 1, k - 1))>> \o SplitComma(Drop(s, k + 1))

\* ", ".join(ps)
JoinComma(ps) ==
    Join([i \in DOMAIN ps |-> IF i = 1 THEN ps[i] ELSE <<",", " ">> \o ps[i]])

\* x in ps
InList(x, ps) == \E i \in DOMAIN ps : ps[i] = x

\* _stringify_country(x) for a str, a dict that holds a name, and anything else
stringify_country(x) ==
    IF x.kind \in {"str", "dict"} THEN norm_spaces(x.name) ELSE <<>>

\* no addressCountry
NoCountry == [kind |-> "none", name |-> <<>>]

\* An item of the "location" of a JSON-LD object: place.kind tells whether the
\* item is a dict, and address.kind whether its "address" is a dict, a str or
\* missing.
Place(kind, addr_kind, locality, region, country, text) ==
    [kind |-> kind,
     address |-> [kind |-> addr_kind, addressLocality |-> locality,
                  addressRegion |-> region, addressCountry |-> country,
                  text |-> text]]

\* the body of the loop over loc_list, for a place that is a dict:
\* normalize_location(", ".join(parts_out))
PlaceCandidate(place) ==
    LET addr == place.address
        parts == IF addr.kind = "str"
                 THEN SelectSeq(SplitComma(addr.text), LAMBDA p : p # <<>>)
                 ELSE <<>>
        locality == IF addr.kind = "dict" THEN norm_spaces(addr.addressLocality)
                    ELSE IF Len(parts) >= 2 THEN parts[1]
                    ELSE <<>>
        region == IF addr.kind = "dict" THEN norm_spaces(addr.addressRegion)
                  ELSE IF Len(parts) >= 3 THEN parts[Len(parts) - 1]
                  ELSE <<>>
        country == IF addr.kind = "dict" THEN stringify_country(addr.addressCountry)
                   ELSE IF Len(parts) >= 2 THEN parts[Len(parts)]
                   ELSE <<>>
        out1 == IF locality # <<>> THEN <<locality>> ELSE <<>>
        out2 == IF region # <<>> /\ ~InList(region, out1)
                THEN Append(out1, region) ELSE out1
        parts_out == IF country # <<>> /\ ~InList(country, out2)
                     THEN Append(out2, country) ELSE out2
    IN  normalize_location(JoinComma(parts_out))

\* the first truthy value of cs, None when there is none: "if cand: return cand"
\* in a loop that ends in "return None"
FirstTruthy(cs) ==
    LET hits == {i \in DOMAIN cs : ~Falsy(cs[i])}
    IN  IF hits = {} THEN None ELSE cs[Min(hits)]

\* "Event" in str(t)
IsEventType(t) == Contains(t, <<"E","v","e","n","t">>)

\* extract_location_from_jsonld: jsonld holds the dicts that _walk yields from
\* the objects of the page, in that order
extract_location_from_jsonld(jsonld) ==
    FirstTruthy([n \in DOMAIN jsonld |->
        LET d == jsonld[n] IN
        IF d.type = <<>> \/ ~IsEventType(d.type) THEN None
        ELSE FirstTruthy([k \in DOMAIN d.location |->
                 IF d.location[k].kind # "dict" THEN None
                 ELSE PlaceCandidate(d.location[k])])])

\* the selectors of fetch_location_from_page, in the order of the list
selectors == <<
    ".mec-single-event .mec-event-location",
    ".mec-single-event-location",
    ".mec-event-meta-item-location",
    ".mec-event-meta .mec-event-location",
    ".mec-event-location",
    "i.mec-sl-location",
    "i.mec-fa-map-marker",
    "i.fa-map-marker" >>

\* " ".join of the stripped non-empty strings: get_text(" ", strip=True)
GetTextStripped(nodes) ==
    LET kept == SelectSeq([i \in DOMAIN nodes |-> Strip(nodes[i])],
                          LAMBDA p : p # <<>>)
    IN  Join([i \in DOMAIN kept |-> IF i = 1 THEN kept[i] ELSE <<" ">> \o kept[i]])

\* "\n".join of the strings: get_text("\n")
GetTextLines(nodes) ==
    Join([i \in DOMAIN nodes |-> IF i = 1 THEN nodes[i] ELSE <<"\n">> \o nodes[i]])

\* the first position from i on that holds no whitespace, Len(s) + 1 at the end
SkipSpace(s, i) ==
    Min({j \in i..(Len(s) + 1) : j = Len(s) + 1 \/ ~IsSpace(s[j])})

LabelWords == {<<"l","o","c","a","t","i","o","n">>, <<"v","e","n","u","e">>}

\* the position after (?i)(location|venue) matched at position q, 0 for no match
AfterLabel(s, q) ==
    LET ls == Lower(s)
        ends == {q + Len(w) : w \in {w \in LabelWords : MatchAt(ls, q, w)}}
    IN  IF ends = {} THEN 0 ELSE Min(ends)

\* re.sub(r"(?i)^(location|venue)\s*[:\-]?\s*", "", cand).strip()
StripLabelPrefix(cand) ==
    LET a == AfterLabel(cand, 1)
        b == SkipSpace(cand, a)
        c == IF b <= Len(cand) /\ cand[b] \in {":", "-"} THEN b + 1 ELSE b
    IN  IF a = 0 THEN Strip(cand) ELSE Strip(Drop(cand, SkipSpace(cand, c)))

\* soup.select_one(sel): the first element of the body, in document order,
\* that the selector at position k matches; 0 when there is none
select_one(body, k) ==
    LET found == {n \in DOMAIN body : k \in body[n].sels}
    IN  IF found = {} THEN 0 ELSE Min(found)

\* the body of the loop over selectors for the selector at position k: the
\* normalized candidate, None when there is no element. An element of the page
\* has a parent.
SelectorCandidate(body, k) ==
    LET n == select_one(body, k) IN
    IF n = 0 THEN None
    ELSE LET el == body[n]
             cand == IF el.name = "i" THEN norm_spaces(GetTextStripped(el.parent))
                     ELSE norm_spaces(GetTextStripped(el.nodes))
         IN  normalize_location(StripLabelPrefix(cand))

\* the loop over selectors from position k on, that returns at the first
\* element found, accepted or not
RECURSIVE SelectorLoop_StopsAtFirstElement(_, _)
SelectorLoop_StopsAtFirstElement(body, k) ==
    IF k > Len(selectors) THEN None
    ELSE IF select_one(body, k) # 0 THEN SelectorCandidate(body, k)
    ELSE SelectorLoop_StopsAtFirstElement(body, k + 1)

\* the loop over selectors from position k on: the first truthy candidate, None
\* when the loop ends
RECURSIVE SelectorLoop(_, _)
SelectorLoop(body, k) ==
    IF k > Len(selectors) THEN None
    ELSE LET cand == SelectorCandidate(body, k)
         IN  IF ~Falsy(cand) THEN cand ELSE SelectorLoop(body, k + 1)

\* soup.get_text("\n"): the strings of the body in document order; the strings
\* around an icon are those of its parent
PageText(body) ==
    GetTextLines(Join([n \in DOMAIN body |->
        IF body[n].name = "i" THEN body[n].parent ELSE body[n].nodes]))

\* ^\s* ends at position q: only whitespace between the start of a line and q
AtLineStart(s, q) ==
    \E p \in 1..q : /\ p = 1 \/ s[p - 1] = "\n"
                    /\ \A j \in p..(q - 1) : IsSpace(s[j])

\* (?im)^\s*(location|venue)\s*[:\-]\s*(.+?)\s*$ with the label at position q:
\* <<group 2>>, or <<>> for no match. After the separator the whitespace is
\* skipped, line ends included, and group 2 runs to the last character of that
\* line that is no whitespace; with nothing but whitespace up to the end of the
\* text, group 2 is at most one blank.
LabelMatchAt(s, q) ==
    LET a == AfterLabel(s, q)
        b == SkipSpace(s, a)
        v == SkipSpace(s, b + 1)
    IN  IF ~AtLineStart(s, q) \/ a = 0 THEN <<>>
        ELSE IF b > Len(s) \/ s[b] \notin {":", "-"} THEN <<>>
        ELSE IF v > Len(s)
             THEN (IF \E j \in (b + 1)..Len(s) : s[j] # "\n"
                   THEN << <<" ">> >> ELSE <<>>)
        ELSE LET eol == Min({j \in v..(Len(s) + 1) :
                                 j = Len(s) + 1 \/ s[j] = "\n"})
                 last == Max({j \in v..(eol - 1) : ~IsSpace(s[j])})
             IN  << SubSeq(s, v, last) >>

\* re.search of the label pattern: <<group 2>> of the leftmost match, or <<>>
LabelSearch(s) ==
    LET hits == {q \in 1..Len(s) : LabelMatchAt(s, q) # <<>>}
    IN  IF hits = {} THEN <<>> ELSE LabelMatchAt(s, Min(hits))

\* 3) Text label fallback
LabelLine(body) ==
    LET m == LabelSearch(PageText(body))
    IN  IF m # <<>> THEN normalize_location(m[1]) ELSE None

\* most places of one JSON-LD object, objects of one page, elements of one body
MaxPlaces == 2
MaxDicts == 1
MaxBlocks == 2

Str(name) == [kind |-> "str", name |-> name]

\* the items of "location" lists: an address dict of a city and a country, a
\* place given as a string, an address string of three parts, an address dict
\* that holds a share link text, and a place without address
Places == {
    Place("dict", "dict", <<"P","a","r","i","s">>, <<>>, Str(<<"F","r","a","n","c","e">>), <<>>),
    Place("str", "none", <<>>, <<>>, NoCountry, <<>>),
    Place("dict", "str", <<>>, <<>>, NoCountry, <<"A","r","e","n","a",","," ","L","y","o","n",","," ","F","r","a","n","c","e">>),
    Place("dict", "dict", <<"S","h","a","r","e">>, <<>>, NoCountry, <<>>),
    Place("dict", "none", <<>>, <<>>, NoCountry, <<>>) }

JsonLdTypes == {<<"S","p","o","r","t","s","E","v","e","n","t">>, <<"O","r","g","a","n","i","z","a","t","i","o","n">>}

JsonLdDicts ==
    {[type |-> t, location |-> l] :
        t \in JsonLdTypes,
        l \in UNION {[1..n -> Places] : n \in 0..MaxPlaces}}

\* An element or a paragraph of the body: the selectors that match it (by
\* position in selectors), its tag name, its strings, and the strings of its
\* parent.
Block(sels, name, nodes, parent) ==
    [sels |-> sels, name |-> name, nodes |-> nodes, parent |-> parent]

Blocks == {
    Block({1, 5}, "div", <<<<"L","o","c","a","t","i","o","n",":">>, <<"P","a","r","i","s",","," ","F","r","a","n","c","e">>>>,
          <<<<"L","o","c","a","t","i","o","n",":">>, <<"P","a","r","i","s",","," ","F","r","a","n","c","e">>>>),
    Block({2}, "span", <<<<"A","d","d"," ","t","o"," ","C","a","l","e","n","d","a","r">>>>, <<<<"A","d","d"," ","t","o"," ","C","a","l","e","n","d","a","r">>>>),
    Block({6}, "i", <<>>, <<<<"L","y","o","n",","," ","F","r","a","n","c","e">>>>),
    Block({5}, "div", <<<<"U","S","A">>>>, <<<<"U","S","A">>>>),
    Block({}, "p", <<<<"V","e","n","u","e"," ","-"," ","H","a","l","l"," ","5",","," ","R","o","m","e">>>>, <<<<"V","e","n","u","e"," ","-"," ","H","a","l","l"," ","5",","," ","R","o","m","e">>>>),
    Block({}, "p", <<<<"L","o","c","a","t","i","o","n",":"," ","T","B","A">>>>, <<<<"L","o","c","a","t","i","o","n",":"," ","T","B","A">>>>) }

\* what http_get(url) gives: an exception, or the page
Pages ==
    {[ok |-> FALSE, jsonld |-> <<>>, body |-> <<>>]} \cup
    {[ok |-> TRUE, jsonld |-> j, body |-> b] :
        j \in UNION {[1..n -> JsonLdDicts] : n \in 0..MaxDicts},
        b \in UNION {[1..n -> Blocks] : n \in 0..MaxBlocks}}

InitPage == /\ fpc = "call"
            /\ arg \in Pages
            /\ ret = <<>>
            /\ NormIdle /\ MainIdle /\ ResolveIdle
            /\ ConflictIdle /\ EnrichIdle /\ CacheIdle

PageFrame == /\ UNCHANGED arg
             /\ UNCHANGED <<mainVars, normVars, resolveVars>>
             /\ UNCHANGED <<conflictVars, enrichVars, cacheVars>>

\* try: html = http_get(url) / except Exception: return None
HttpGet ==
    /\ fpc = "call"
    /\ IF arg.ok THEN fpc' = "jsonld" /\ ret' = ret
                 ELSE fpc' = "returned" /\ ret' = None
    /\ PageFrame

\* 1) JSON-LD
TryJsonLd ==
    /\ fpc = "jsonld"
    /\ LET loc == extract_location_from_jsonld(arg.jsonld)
       IN  IF ~Falsy(loc) THEN fpc' = "returned" /\ ret' = loc
                          ELSE fpc' = "selectors" /\ ret' = ret
    /\ PageFrame

\* 2) MEC / common selectors
TrySelectors ==
    /\ fpc = "selectors"
    /\ LET cand == SelectorLoop(arg.body, 1)
       IN  IF ~Falsy(cand) THEN fpc' = "returned" /\ ret' = cand
                           ELSE fpc' = "label" /\ ret' = ret
    /\ PageFrame

\* 3) Text label fallback, and the last "return None"
TryLabel ==
    /\ fpc = "label"
    /\ ret' = LabelLine(arg.body)
    /\ fpc' = "returned"
    /\ PageFrame

NextPage == HttpGet \/ TryJsonLd \/ TrySelectors \/ TryLabel

SpecPage == InitPage /\ [][NextPage]_vars

\* the normalized candidates of a page in the order of the strategies: those of
\* the places of the JSON-LD event objects, those of the selectors, and that of
\* the label line
CandidatesInOrder(page) ==
    Join([n \in DOMAIN page.jsonld |->
            IF ~IsEventType(page.jsonld[n].type) THEN <<>>
            ELSE Join([k \in DOMAIN page.jsonld[n].location |->
                     IF page.jsonld[n].location[k].kind # "dict" THEN <<>>
                     ELSE <<PlaceCandidate(page.jsonld[n].location[k])>>])])
    \o [k \in DOMAIN selectors |-> SelectorCandidate(page.body, k)]
    \o <<LabelLine(page.body)>>

\* C18: when the fetch fails fetch_location_from_page returns None; otherwise it
\* returns the first candidate, in the order JSON-LD, selectors as listed, label
\* line, that the normalizer accepted, and None only when it accepted none. The
\* selectors are tried only after JSON-LD gave nothing, and the label line only
\* after the selectors gave nothing either.
C18_FirstAccepted ==
    LET cs == CandidatesInOrder(arg)
        accepted == {i \in DOMAIN cs : cs[i] # None}
        nj == Len(cs) - Len(selectors) - 1
    IN  /\ fpc = "returned" =>
              IF ~arg.ok \/ accepted = {} THEN ret = None
              ELSE ret = cs[Min(accepted)]
        /\ fpc = "selectors" => \A i \in accepted : i > nj
        /\ fpc = "label" => \A i \in accepted : i > nj + Len(selectors)

\* the page came, JSON-LD held a place the normalizer rejected, an element that
\* an earlier selector found was rejected too, and the result is the candidate
\* of a later selector
C18_Witness ==
    /\ fpc = "returned"
    /\ arg.ok
    /\ \E n \in DOMAIN arg.jsonld : \E k \in DOMAIN arg.jsonld[n].location :
          /\ IsEventType(arg.jsonld[n].type)
          /\ arg.jsonld[n].location[k].address.addressLocality # <<>>
          /\ PlaceCandidate(arg.jsonld[n].location[k]) = None
    /\ \E k1 \in DOMAIN selectors : \E k2 \in DOMAIN selectors :
          /\ k1 < k2
          /\ select_one(arg.body, k1) # 0
          /\ SelectorCandidate(arg.body, k1) = None
          /\ SelectorCandidate(arg.body, k2) # None
          /\ ret = SelectorCandidate(arg.body, k2)

====
